---------------------------- MODULE Spec2Model ----------------------------
(***************************************************************************)
(* EchoCode structural navigation: the symbol-tree flattener, the jump-    *)
(* target builder and the next/previous navigator of                       *)
(* navigation_features/navigationHandler.js, and the block locator         *)
(* (Selection.detectCurrentBlock) of Core/Summarizer/codeParser.js.        *)
(*                                                                         *)
(* Strings are sequences of one-character strings, so that trim, join and  *)
(* the fallback regular expression are computed and not assumed.           *)
(* A symbol tree is an arena: node ids stand for the identity of the       *)
(* provider's objects, node[i].children is the ordered children list.      *)
(***************************************************************************)
EXTENDS Integers, Sequences, FiniteSets, TLC

VARIABLES
    symbols,      \* what vscode.executeDocumentSymbolProvider resolves to
    docText,      \* the document: a sequence of lines (fallback scan)
    cursor,       \* editor.selection.active
    pending,      \* moveCursorToSymbol calls suspended at the provider await, per direction
    issued,       \* number of navigation commands issued so far
    lastTimeout,  \* module-level timer handle (0 is null)
    timers,       \* timers scheduled with setTimeout and neither fired nor cleared
    spoken,       \* messages handed to speakMessage, in order
    last,         \* locals of the most recently completed moveCursorToSymbol call
    completed,    \* number of moveCursorToSymbol calls that ran to their end
    trail,        \* locals of every completed moveCursorToSymbol call, oldest first
    sel,          \* the fields of one Selection object
    detecting,    \* cursors captured by detectCurrentBlock calls suspended at the await
    detects,      \* number of detectCurrentBlock calls made so far
    detected,     \* locals of the most recently completed detectCurrentBlock call
    flatOut,      \* result of a flattenSymbols call
    walkOut,      \* result of the walk inside detectCurrentBlock
    rangeOut,     \* arguments and result of a call of inRange or rangeSize
    targetsOut    \* result of a getJumpTargets call

vars == <<symbols, docText, cursor, pending, issued, lastTimeout, timers, spoken,
          last, completed, trail, sel, detecting, detects, detected, flatOut, walkOut, targetsOut,
          rangeOut>>

---------------------------------------------------------------------------
(* Bounds of the model *)

MaxNodes == 3
MaxCalls == 2

\* the line and character numbers positions are drawn from
LineNumbers == {0, 1}

Characters == {0, 1}

---------------------------------------------------------------------------
(* Positions and ranges (vscode.Position, vscode.Range) *)

Pos(l, c) == [line |-> l, character |-> c]

Positions == {Pos(l, c) : l \in LineNumbers, c \in Characters}

isBefore(p, q) ==
    \/ p.line < q.line
    \/ p.line = q.line /\ p.character < q.character

isAfter(p, q) ==
    \/ p.line > q.line
    \/ p.line = q.line /\ p.character > q.character

Rng(s, e) == [start |-> s, end |-> e]

\* a range the provider left out (s.range is undefined)
NoRange == [undefined |-> TRUE]

hasRange(r) == "start" \in DOMAIN r

AllRanges == {Rng(s, e) : s \in Positions, e \in Positions}

\* start <= end, the provider's invariant
WellFormedRanges == {r \in AllRanges : ~isBefore(r.end, r.start)}

---------------------------------------------------------------------------
(* Strings *)

Str1(c) == <<c>>

isSpace(c) == c = " "

RECURSIVE trimStart(_)
trimStart(s) ==
    IF s = <<>> THEN <<>>
    ELSE IF isSpace(Head(s)) THEN trimStart(Tail(s)) ELSE s

RECURSIVE trimEnd(_)
trimEnd(s) ==
    IF s = <<>> THEN <<>>
    ELSE IF isSpace(s[Len(s)]) THEN trimEnd(SubSeq(s, 1, Len(s) - 1)) ELSE s

trim(s) == trimEnd(trimStart(s))

RECURSIVE join(_, _)
join(chain, sep) ==
    IF chain = <<>> THEN <<>>
    ELSE IF Len(chain) = 1 THEN chain[1]
    ELSE chain[1] \o sep \o join(Tail(chain), sep)

---------------------------------------------------------------------------
(* Symbol kinds (vscode.SymbolKind); "Variable" stands for every kind the   *)
(* code does not name                                                      *)

Kinds == {"Function", "Method", "Constructor", "Class", "Struct", "Variable"}

isJumpableKindBroken(kind) ==
    \/ kind = "Function"
    \/ kind = "Method"
    \/ kind = "Class"
    \/ kind = "Struct"
    \/ kind = "Variable"

isJumpableKind(kind) ==
    \/ kind = "Function"
    \/ kind = "Method"
    \/ kind = "Constructor"
    \/ kind = "Class"
    \/ kind = "Struct"

---------------------------------------------------------------------------
(* Symbol trees *)

Ids(n) == [i \in 1..n |-> i]

ParentVectors(n) == {p \in [1..n -> 0..n] : \A i \in 1..n : p[i] < i}

childrenOf(p, n, k) == SelectSeq(Ids(n), LAMBDA i : p[i] = k)

\* the trees with exactly n nodes, shapes from PS, kinds from KS, ranges
\* given by one of the functions RFS and names by one of the functions NFS
TreesOver(n, PS, KS, RFS, NFS) ==
    { [roots |-> childrenOf(p, n, 0),
       node  |-> [i \in 1..n |-> [name     |-> nf[i],
                                  kind     |-> kf[i],
                                  range    |-> rf[i],
                                  children |-> childrenOf(p, n, i)]]] :
        p \in PS, kf \in [1..n -> KS], rf \in RFS, nf \in NFS }

TreesOf(n, KS, RS, NFS) == TreesOver(n, ParentVectors(n), KS, [1..n -> RS], NFS)

\* the two extreme shapes: n roots, and one chain of n nested symbols
FlatOrChain(n) == {[i \in 1..n |-> 0], [i \in 1..n |-> i - 1]}

nodeIds(tree) == DOMAIN tree.node

\* node names a, b, c, ... by node id
Letters == <<"a", "b", "c", "d", "e", "f">>

DefaultNames(n) == {[i \in 1..n |-> Str1(Letters[i])]}

---------------------------------------------------------------------------
(* navigationHandler.js: flattenSymbols, prettyName, getPositionFromRange  *)

\* { ...s, parent }: a copy of the symbol's fields plus the ancestor chain;
\* self records which provider object the entry was copied from
FlatEntry(tree, s, parent) ==
    [self     |-> s,
     name     |-> tree.node[s].name,
     kind     |-> tree.node[s].kind,
     range    |-> tree.node[s].range,
     children |-> tree.node[s].children,
     parent   |-> parent]

RECURSIVE flattenSymbolsNoRecursion(_, _, _)
flattenSymbolsNoRecursion(tree, list, parent) ==
    IF list = <<>> THEN <<>>
    ELSE <<FlatEntry(tree, Head(list), parent)>>
         \o flattenSymbolsNoRecursion(tree, Tail(list), parent)

RECURSIVE flattenSymbolsParentOnly(_, _, _)
flattenSymbolsParentOnly(tree, list, parent) ==
    IF list = <<>> THEN <<>>
    ELSE LET s == Head(list)
         IN  <<FlatEntry(tree, s, parent)>>
             \o (IF Len(tree.node[s].children) > 0
                 THEN flattenSymbolsParentOnly(tree, tree.node[s].children, <<s>>)
                 ELSE <<>>)
             \o flattenSymbolsParentOnly(tree, Tail(list), parent)

RECURSIVE flattenSymbols(_, _, _)
flattenSymbols(tree, list, parent) ==
    IF list = <<>> THEN <<>>
    ELSE LET s == Head(list)
         IN  <<FlatEntry(tree, s, parent)>>
             \o (IF Len(tree.node[s].children) > 0
                 THEN flattenSymbols(tree, tree.node[s].children, Append(parent, s))
                 ELSE <<>>)
             \o flattenSymbols(tree, Tail(list), parent)

Unnamed == <<"(", "u", "n", "n", "a", "m", "e", "d", ")">>

ColonColon == <<":", ":">>

\* chain of the trimmed, non-empty ancestor names, then the trimmed own name
nameChain(tree, sym) ==
    LET mapped   == [i \in 1..Len(sym.parent) |-> trim(tree.node[sym.parent[i]].name)]
        filtered == SelectSeq(mapped, LAMBDA n : n # <<>>)
    IN  IF sym.name # <<>> THEN Append(filtered, trim(sym.name)) ELSE filtered

prettyName(tree, sym) ==
    LET joined == join(nameChain(tree, sym), ColonColon)
    IN  IF joined # <<>> THEN joined ELSE Unnamed

getPositionFromRange(range) ==
    IF hasRange(range) THEN range.start ELSE Pos(0, 0)

---------------------------------------------------------------------------
(* navigationHandler.js: getJumpTargets *)

JumpTarget(p, n) == [position |-> p, name |-> n]

\* the comparator handed to Array.prototype.sort
comparePosition(a, b) ==
    IF a.position.line = b.position.line
    THEN a.position.character - b.position.character
    ELSE a.position.line - b.position.line

\* Array.prototype.sort is stable: x goes after every element that does not
\* compare greater than it
insertTarget(sorted, x) ==
    LET k == Cardinality({i \in 1..Len(sorted) : comparePosition(sorted[i], x) <= 0})
    IN  SubSeq(sorted, 1, k) \o <<x>> \o SubSeq(sorted, k + 1, Len(sorted))

RECURSIVE sortTargets(_)
sortTargets(s) ==
    IF s = <<>> THEN <<>>
    ELSE insertTarget(sortTargets(SubSeq(s, 1, Len(s) - 1)), s[Len(s)])

unsortedTargets(s) == s

byPosition(s) == sortTargets(s)

\* /^(def |class )(\w+)/gm
DefPrefix == <<"d", "e", "f", " ">>

ClassPrefix == <<"c", "l", "a", "s", "s", " ">>

WordChars == {"a", "b", "c", "d", "e", "f", "g", "h", "i", "j", "k", "l", "m",
              "n", "o", "p", "q", "r", "s", "t", "u", "v", "w", "x", "y", "z",
              "A", "B", "C", "D", "E", "F", "G", "H", "I", "J", "K", "L", "M",
              "N", "O", "P", "Q", "R", "S", "T", "U", "V", "W", "X", "Y", "Z",
              "0", "1", "2", "3", "4", "5", "6", "7", "8", "9", "_"}

startsWith(s, prefix) ==
    /\ Len(s) >= Len(prefix)
    /\ SubSeq(s, 1, Len(prefix)) = prefix

RECURSIVE wordRun(_)
wordRun(s) ==
    IF s = <<>> \/ Head(s) \notin WordChars THEN <<>>
    ELSE <<Head(s)>> \o wordRun(Tail(s))

\* match[2] of (def |class )(\w+) tried at the start of s, or <<>> when it
\* does not match there
matchLine(s) ==
    IF startsWith(s, DefPrefix)
    THEN wordRun(SubSeq(s, Len(DefPrefix) + 1, Len(s)))
    ELSE IF startsWith(s, ClassPrefix)
    THEN wordRun(SubSeq(s, Len(ClassPrefix) + 1, Len(s)))
    ELSE <<>>

\* the line terminators of a regular expression that do not end a line of
\* the document (U+2028, U+2029); LF and CR end both
LineTerminators == {"LS", "PS"}

\* ^ under the m flag, at 0-based column c of a document line
atLineStart(lineText, c) == c = 0 \/ lineText[c] \in LineTerminators

\* the matches within document line l, from column c on, each placed by
\* positionAt(match.index)
RECURSIVE scanLine(_, _, _)
scanLine(lineText, l, c) ==
    IF c >= Len(lineText) THEN <<>>
    ELSE LET name == matchLine(SubSeq(lineText, c + 1, Len(lineText)))
         IN  (IF atLineStart(lineText, c) /\ name # <<>>
              THEN <<JumpTarget(Pos(l, c), name)>>
              ELSE <<>>)
             \o scanLine(lineText, l, c + 1)

RECURSIVE scanLines(_, _)
scanLines(text, i) ==
    IF i > Len(text) THEN <<>>
    ELSE scanLine(text[i], i - 1, 0) \o scanLines(text, i + 1)

fallbackScan(text) == scanLines(text, 1)

symbolTargets(tree) ==
    LET flat     == flattenSymbols(tree, tree.roots, <<>>)
        jumpable == SelectSeq(flat, LAMBDA s : isJumpableKind(s.kind))
        mapped   == [i \in 1..Len(jumpable) |->
                        JumpTarget(getPositionFromRange(jumpable[i].range),
                                   prettyName(tree, jumpable[i]))]
    IN  byPosition(mapped)

usesFallbackWhenEmptyOnly(tree) == ~(Len(tree.roots) > 0)

\* neither return in lines 60-75 is taken: the text scan of lines 77-88 runs
usesFallback(tree) ==
    LET flat == IF Len(tree.roots) > 0 THEN symbolTargets(tree) ELSE <<>>
    IN  ~(Len(tree.roots) > 0 /\ Len(flat) > 0)

getJumpTargets(tree, text) ==
    IF usesFallback(tree) THEN fallbackScan(text) ELSE symbolTargets(tree)

---------------------------------------------------------------------------
(* codeParser.js: the walk of detectCurrentBlock, inRange, rangeSize *)

WalkEntry(s, parents) == [sym |-> s, parents |-> parents]

RECURSIVE walk(_, _, _)
walk(tree, list, parents) ==
    IF list = <<>> THEN <<>>
    ELSE LET s == Head(list)
         IN  <<WalkEntry(s, parents)>>
             \o (IF Len(tree.node[s].children) > 0
                 THEN walk(tree, tree.node[s].children, Append(parents, s))
                 ELSE <<>>)
             \o walk(tree, Tail(list), parents)

inRangeLinesOnly(pos, range) ==
    LET s == range.start
        e == range.end
    IN  IF pos.line < s.line \/ pos.line > e.line THEN FALSE
        ELSE TRUE

inRangeEndExclusive(pos, range) ==
    LET s == range.start
        e == range.end
    IN  IF pos.line < s.line \/ pos.line > e.line THEN FALSE
        ELSE IF pos.line = s.line /\ pos.character < s.character THEN FALSE
        ELSE IF pos.line = e.line /\ pos.character >= e.character THEN FALSE
        ELSE TRUE

inRange(pos, range) ==
    LET s == range.start
        e == range.end
    IN  IF pos.line < s.line \/ pos.line > e.line THEN FALSE
        ELSE IF pos.line = s.line /\ pos.character < s.character THEN FALSE
        ELSE IF pos.line = e.line /\ pos.character > e.character THEN FALSE
        ELSE TRUE

LineWeight == 10000

rangeSizeLinesOnly(range) ==
    (range.end.line - range.start.line) * LineWeight

rangeSize(range) ==
    (range.end.line - range.start.line) * LineWeight
    + (range.end.character - range.start.character)

---------------------------------------------------------------------------
(* codeParser.js: class Selection and detectCurrentBlock *)

\* doc.lineAt(n): a TextLine; lineNumber -1 stands for the field's initial null
NullLine == [lineNumber |-> -1, text |-> <<>>]

lineAt(text, n) == [lineNumber |-> n, text |-> text[n + 1]]

lineExists(text, n) == n >= 0 /\ n < Len(text)

RECURSIVE wholeLines(_, _, _)
wholeLines(text, from, to) ==
    IF from > to THEN <<>>
    ELSE text[from + 1] \o <<"\n">> \o wholeLines(text, from + 1, to)

\* doc.getText(range)
getText(text, range) ==
    LET s == range.start
        e == range.end
    IN  IF s.line = e.line
        THEN SubSeq(text[s.line + 1], s.character + 1, e.character)
        ELSE SubSeq(text[s.line + 1], s.character + 1, Len(text[s.line + 1]))
             \o <<"\n">>
             \o wholeLines(text, s.line + 1, e.line - 1)
             \o SubSeq(text[e.line + 1], 1, e.character)

\* the field initialisers and the constructor
NewSelection(blockType) ==
    [firstLine |-> NullLine, lastLine |-> NullLine, cursorInSelection |-> TRUE,
     blockType |-> blockType, name |-> <<>>, text |-> <<>>, selectionInClass |-> FALSE]

\* vscode.SymbolKind.Class, or the array [Function, Method]
wantKind(blockType) ==
    IF blockType = "class"
    THEN [isArray |-> FALSE, kinds |-> <<"Class">>]
    ELSE [isArray |-> TRUE, kinds |-> <<"Function", "Method">>]

kindWantedLoose(want, kind) ==
    IF want.isArray
    THEN kind \in {"Function", "Method", "Constructor"}
    ELSE kind = want.kinds[1]

kindWanted(want, kind) ==
    IF want.isArray
    THEN \E i \in DOMAIN want.kinds : want.kinds[i] = kind
    ELSE kind = want.kinds[1]

insertLargestFirst(tree, sorted, x) ==
    LET k == Cardinality({i \in 1..Len(sorted) :
                 rangeSize(tree.node[x.sym].range)
                 - rangeSize(tree.node[sorted[i].sym].range) <= 0})
    IN  SubSeq(sorted, 1, k) \o <<x>> \o SubSeq(sorted, k + 1, Len(sorted))

insertBeforeEqual(tree, sorted, x) ==
    LET k == Cardinality({i \in 1..Len(sorted) :
                 rangeSize(tree.node[sorted[i].sym].range)
                 - rangeSize(tree.node[x.sym].range) < 0})
    IN  SubSeq(sorted, 1, k) \o <<x>> \o SubSeq(sorted, k + 1, Len(sorted))

\* stable sort by rangeSize(a.sym.range) - rangeSize(b.sym.range)
insertBySize(tree, sorted, x) ==
    LET k == Cardinality({i \in 1..Len(sorted) :
                 rangeSize(tree.node[sorted[i].sym].range)
                 - rangeSize(tree.node[x.sym].range) <= 0})
    IN  SubSeq(sorted, 1, k) \o <<x>> \o SubSeq(sorted, k + 1, Len(sorted))

RECURSIVE sortBySize(_, _)
sortBySize(tree, s) ==
    IF s = <<>> THEN <<>>
    ELSE insertBySize(tree, sortBySize(tree, SubSeq(s, 1, Len(s) - 1)), s[Len(s)])

unsortedBySize(tree, s) == s

bySize(tree, s) == sortBySize(tree, s)

\* the entries that pass both filters, sorted; element [0] is `containing`
candidates(tree, cur, blockType) ==
    LET flat    == walk(tree, tree.roots, <<>>)
        atPos   == SelectSeq(flat, LAMBDA en : inRange(cur, tree.node[en.sym].range))
        ofKind  == SelectSeq(atPos, LAMBDA en :
                       kindWanted(wantKind(blockType), tree.node[en.sym].kind))
    IN  bySize(tree, ofKind)

\* inRange reads range.start: a TypeError when a symbol has no range
inRangeThrows(tree) == \E n \in nodeIds(tree) : ~hasRange(tree.node[n].range)

\* the assignments of a successful call, up to the first lineAt that throws
foundSelection(s, tree, text, en) ==
    LET sym == tree.node[en.sym]
        named == [s EXCEPT !.name = sym.name]
    IN  IF ~lineExists(text, sym.range.start.line) \/ ~lineExists(text, sym.range.end.line)
        THEN IF lineExists(text, sym.range.start.line)
             THEN [named EXCEPT !.firstLine = lineAt(text, sym.range.start.line)]
             ELSE named
        ELSE [named EXCEPT
                !.firstLine = lineAt(text, sym.range.start.line),
                !.lastLine = lineAt(text, sym.range.end.line),
                !.text = getText(text, sym.range),
                !.selectionInClass =
                    \E i \in DOMAIN en.parents : tree.node[en.parents[i]].kind = "Class"]

lineAtThrows(tree, text, en) ==
    \/ ~lineExists(text, tree.node[en.sym].range.start.line)
    \/ ~lineExists(text, tree.node[en.sym].range.end.line)

---------------------------------------------------------------------------
(* Initial values of the parts of the state a specification leaves alone *)

NoTarget == JumpTarget(Pos(0, 0), <<>>)

NoCall == [direction |-> "none", current |-> Pos(0, 0), targets |-> <<>>,
           found |-> FALSE, target |-> NoTarget, message |-> "none", rejected |-> FALSE,
           pendingBefore |-> {}]

NoDetect == [done |-> FALSE, cursor |-> Pos(0, 0), found |-> FALSE, sym |-> 0,
             threw |-> FALSE, before |-> NewSelection("function")]

NotCalled == [called |-> FALSE, value |-> <<>>]

\* getJumpTargets not called yet; scanned tells whether a call ran the text scan
NoTargets == [called |-> FALSE, value |-> <<>>, scanned |-> FALSE]

Returned(v) == [called |-> TRUE, value |-> v]

\* neither helper of codeParser.js called yet
NoRangeCall == [op |-> "none", pos |-> Pos(0, 0), range |-> Rng(Pos(0, 0), Pos(0, 0)),
                other |-> Rng(Pos(0, 0), Pos(0, 0)), result |-> FALSE, size |-> 0,
                otherSize |-> 0]

EmptyTree == [roots |-> <<>>, node |-> <<>>]

NavIdle ==
    /\ pending = [d \in {"next", "previous"} |-> 0]
    /\ issued = 0
    /\ lastTimeout = 0
    /\ timers = {}
    /\ spoken = <<>>
    /\ last = NoCall
    /\ completed = 0
    /\ trail = <<>>

BlockIdle ==
    /\ sel = NewSelection("function")
    /\ detecting = {}
    /\ detects = 0
    /\ detected = NoDetect

PureIdle ==
    /\ flatOut = NotCalled
    /\ walkOut = NotCalled
    /\ targetsOut = NoTargets
    /\ rangeOut = NoRangeCall

navVars == <<pending, issued, lastTimeout, timers, spoken, last, completed, trail>>

blockVars == <<sel, detecting, detects, detected>>

pureVars == <<flatOut, walkOut, targetsOut, rangeOut>>

---------------------------------------------------------------------------
(* SpecPure: the flattener and the jump-target builder applied to trees    *)

\* a point range at each position
PointRanges == {Rng(p, p) : p \in Positions}

\* node i starts at line i mod 2, character (i div 2) mod 2
RangeById(n) ==
    [i \in 1..n |-> Rng(Pos(i % 2, (i \div 2) % 2), Pos(1, 1))]

\* trees of jumpable symbols at every choice of start positions
PlacedTrees ==
    UNION {TreesOf(n, {"Method"}, PointRanges, DefaultNames(n)) : n \in 0..MaxNodes}

\* flat and nested trees of every choice of kinds, node i placed by its id
KindTrees ==
    UNION {TreesOver(n, FlatOrChain(n), Kinds, {RangeById(n)}, DefaultNames(n)) :
             n \in 0..MaxNodes}

\* documents for the fallback scan
SampleDocs ==
    { <<>>,
      << <<"d", "e", "f", " ", "g", "(", ")", ":">> >>,
      << <<"x", "=", "1">>, <<"c", "l", "a", "s", "s", " ", "A", ":">>,
         <<" ", "d", "e", "f", " ", "m">> >> }

InitPure ==
    /\ symbols \in PlacedTrees \cup KindTrees
    /\ docText \in SampleDocs
    /\ cursor = Pos(0, 0)
    /\ NavIdle
    /\ BlockIdle
    /\ PureIdle

CallFlattenSymbols ==
    /\ ~flatOut.called
    /\ flatOut' = Returned(flattenSymbols(symbols, symbols.roots, <<>>))
    /\ UNCHANGED <<symbols, docText, cursor, navVars, blockVars, walkOut, targetsOut, rangeOut>>

CallWalk ==
    /\ ~walkOut.called
    /\ walkOut' = Returned(walk(symbols, symbols.roots, <<>>))
    /\ UNCHANGED <<symbols, docText, cursor, navVars, blockVars, flatOut, targetsOut, rangeOut>>

CallGetJumpTargets ==
    /\ ~targetsOut.called
    /\ targetsOut' = [called |-> TRUE, value |-> getJumpTargets(symbols, docText),
                      scanned |-> usesFallback(symbols)]
    /\ UNCHANGED <<symbols, docText, cursor, navVars, blockVars, flatOut, walkOut, rangeOut>>

NextPure ==
    \/ CallFlattenSymbols
    \/ CallWalk
    \/ CallGetJumpTargets

SpecPure == InitPure /\ [][NextPure]_vars

---------------------------------------------------------------------------
(* Spec: the navigation commands (moveCursorToSymbol) *)

Directions == {"next", "previous"}

NoSymbolsMessage == "No symbols found to jump to."

noTargetMessageConfused(direction) == NoSymbolsMessage

noTargetMessage(direction) ==
    IF direction = "next" THEN "No next symbol." ELSE "No previous symbol."

movedMessageUnnamed(direction, name) ==
    <<"Moved ", IF direction = "next" THEN "next" ELSE "previous", ".">>

\* `Moved ${direction === "next" ? "next" : "previous"} to ${target.name}.`
movedMessage(direction, name) ==
    <<"Moved ", IF direction = "next" THEN "next" ELSE "previous", " to ">>
    \o name \o <<".">>

RECURSIVE scanNextInclusive(_, _, _)
scanNextInclusive(targets, i, current) ==
    IF i > Len(targets) THEN 0
    ELSE IF ~isBefore(targets[i].position, current) THEN i
    ELSE scanNextInclusive(targets, i + 1, current)

scanNextToLast(targets, i, current) ==
    LET after == {j \in i..Len(targets) : isAfter(targets[j].position, current)}
    IN  IF after = {} THEN 0 ELSE CHOOSE j \in after : \A m \in after : j >= m

\* lines 107-112: the first target after current, scanning upwards
RECURSIVE scanNext(_, _, _)
scanNext(targets, i, current) ==
    IF i > Len(targets) THEN 0
    ELSE IF isAfter(targets[i].position, current) THEN i
    ELSE scanNext(targets, i + 1, current)

RECURSIVE scanPreviousInclusive(_, _, _)
scanPreviousInclusive(targets, i, current) ==
    IF i < 1 THEN 0
    ELSE IF ~isAfter(targets[i].position, current) THEN i
    ELSE scanPreviousInclusive(targets, i - 1, current)

scanPreviousFromFront(targets, i, current) ==
    LET before == {j \in 1..i : isBefore(targets[j].position, current)}
    IN  IF before = {} THEN 0 ELSE CHOOSE j \in before : \A m \in before : j <= m

\* lines 114-119: the first target before current, scanning downwards
RECURSIVE scanPrevious(_, _, _)
scanPrevious(targets, i, current) ==
    IF i < 1 THEN 0
    ELSE IF isBefore(targets[i].position, current) THEN i
    ELSE scanPrevious(targets, i - 1, current)

findTargetWrapping(targets, direction, current) ==
    IF direction = "next"
    THEN (IF scanNext(targets, 1, current) = 0 THEN 1 ELSE scanNext(targets, 1, current))
    ELSE (IF scanPrevious(targets, Len(targets), current) = 0
          THEN Len(targets)
          ELSE scanPrevious(targets, Len(targets), current))

\* index of the target the loops leave in `target`, 0 for null
findTarget(targets, direction, current) ==
    IF direction = "next"
    THEN scanNext(targets, 1, current)
    ELSE scanPrevious(targets, Len(targets), current)

keepTimeout(ts, handle) == ts

clearOtherTimeouts(ts, handle) == {t \in ts : t.id = handle}

\* if (lastTimeout) clearTimeout(lastTimeout)
clearTimeout(ts, handle) == {t \in ts : t.id # handle}

\* start positions that never ascend from one node id to the next: the
\* provider lists the symbols against document order, with ties
Descending(n) ==
    {rf \in [1..n -> PointRanges] :
        \A i \in 1..n, j \in 1..n : i < j => ~isBefore(rf[i].start, rf[j].start)}

\* flat and nested trees of jumpable symbols
NavTrees ==
    UNION {TreesOver(n, FlatOrChain(n), {"Method"}, Descending(n), DefaultNames(n)) :
             n \in 0..MaxNodes}

\* the trees of jumpable symbols, and two trees with nothing to jump to, the
\* latter over each sample document
NavInputs ==
    {<<t, <<>>>> : t \in NavTrees}
    \cup {<<t, d>> : t \in {EmptyTree} \cup TreesOf(1, {"Variable"}, {Rng(Pos(0, 0), Pos(1, 1))},
                                                   DefaultNames(1)),
                     d \in SampleDocs}

Init ==
    /\ \E in \in NavInputs : symbols = in[1] /\ docText = in[2]
    /\ cursor \in Positions
    /\ NavIdle
    /\ BlockIdle
    /\ PureIdle

\* what a call leaves in the trail: its locals, and how many other calls
\* were still waiting for the provider when it ended
TrailEntry(call, stillPending) ==
    [call |-> call, waiting |-> stillPending["next"] + stillPending["previous"]]

\* lines 91-96: a command starts and waits for the symbol provider
Invoke(direction) ==
    /\ issued < MaxCalls
    /\ issued' = issued + 1
    /\ pending' = [pending EXCEPT ![direction] = @ + 1]
    /\ UNCHANGED <<symbols, docText, cursor, lastTimeout, timers, spoken, last, completed,
                   trail, blockVars, pureVars>>

\* lines 96-137: the provider resolved for a suspended call; the rest of
\* the function runs without a further suspension
Resume(direction) ==
    /\ pending[direction] > 0
    /\ pending' = [pending EXCEPT ![direction] = @ - 1]
    /\ completed' = completed + 1
    /\ LET targets == getJumpTargets(symbols, docText)
           current == cursor
           k       == findTarget(targets, direction, current)
       IN  IF Len(targets) = 0
           THEN /\ last' = [direction |-> direction, current |-> current, targets |-> targets,
                            found |-> FALSE, target |-> NoTarget,
                            message |-> NoSymbolsMessage, rejected |-> FALSE,
                            pendingBefore |-> timers]
                /\ UNCHANGED <<cursor, lastTimeout, timers>>
           ELSE IF k = 0
           THEN /\ last' = [direction |-> direction, current |-> current, targets |-> targets,
                            found |-> FALSE, target |-> NoTarget,
                            message |-> noTargetMessage(direction), rejected |-> FALSE,
                            pendingBefore |-> timers]
                /\ UNCHANGED <<cursor, lastTimeout, timers>>
           ELSE /\ cursor' = targets[k].position
                /\ timers' = clearTimeout(timers, lastTimeout)
                                \cup {[id |-> completed + 1,
                                       message |-> movedMessage(direction, targets[k].name)]}
                /\ lastTimeout' = completed + 1
                /\ last' = [direction |-> direction, current |-> current, targets |-> targets,
                            found |-> TRUE, target |-> targets[k],
                            message |-> "none", rejected |-> FALSE,
                            pendingBefore |-> timers]
    /\ UNCHANGED <<symbols, docText, issued, spoken, blockVars, pureVars>>

Resolve(direction) == Resume(direction) /\ UNCHANGED trail

\* the same, the call's locals kept in the trail
ResolveLogged(direction) ==
    Resume(direction) /\ trail' = Append(trail, TrailEntry(last', pending'))

\* the provider call rejects: the awaiting call ends with that rejection
Rejected(direction) ==
    /\ pending[direction] > 0
    /\ pending' = [pending EXCEPT ![direction] = @ - 1]
    /\ completed' = completed + 1
    /\ last' = [NoCall EXCEPT !.direction = direction, !.current = cursor,
                              !.rejected = TRUE, !.pendingBefore = timers]
    /\ UNCHANGED <<symbols, docText, cursor, issued, lastTimeout, timers, spoken,
                   blockVars, pureVars>>

ProviderRejects(direction) == Rejected(direction) /\ UNCHANGED trail

RejectLogged(direction) ==
    Rejected(direction) /\ trail' = Append(trail, TrailEntry(last', pending'))

TimerDropped(t) ==
    /\ t \in timers
    /\ timers' = timers \ {t}
    /\ UNCHANGED <<symbols, docText, cursor, pending, issued, lastTimeout, spoken, last,
                   completed, trail, blockVars, pureVars>>

\* lines 133-137: the 300 ms of a scheduled timer have passed
TimerFires(t) ==
    /\ t \in timers
    /\ timers' = timers \ {t}
    /\ spoken' = Append(spoken, t.message)
    /\ UNCHANGED <<symbols, docText, cursor, pending, issued, lastTimeout, last, completed,
                   trail, blockVars, pureVars>>

Next ==
    \/ \E d \in Directions : Invoke(d)
    \/ \E d \in Directions : Resolve(d)
    \/ \E d \in Directions : ProviderRejects(d)
    \/ \E t \in timers : TimerFires(t)

Spec == Init /\ [][Next]_vars

---------------------------------------------------------------------------
(* Vocabulary of the properties: the tree as a relation, independent of    *)
(* the traversals above                                                    *)

seqElems(s) == {s[i] : i \in DOMAIN s}

indexOf(order, x) == CHOOSE i \in DOMAIN order : order[i] = x

parentOf(tree, d) ==
    IF \E p \in nodeIds(tree) : d \in seqElems(tree.node[p].children)
    THEN CHOOSE p \in nodeIds(tree) : d \in seqElems(tree.node[p].children)
    ELSE 0

RECURSIVE isAncestor(_, _, _)
isAncestor(tree, a, d) ==
    LET p == parentOf(tree, d)
    IN  p # 0 /\ (p = a \/ isAncestor(tree, a, p))

siblingLists(tree) == {tree.roots} \cup {tree.node[p].children : p \in nodeIds(tree)}

\* order lists every node once, parents before descendants, siblings in the
\* order of their list, and a whole subtree before the next sibling
IsPreOrder(tree, order) ==
    /\ Len(order) = Cardinality(nodeIds(tree))
    /\ seqElems(order) = nodeIds(tree)
    /\ \A a \in nodeIds(tree), d \in nodeIds(tree) :
          isAncestor(tree, a, d) => indexOf(order, a) < indexOf(order, d)
    /\ \A l \in siblingLists(tree) : \A i \in DOMAIN l, j \in DOMAIN l :
          i < j =>
            /\ indexOf(order, l[i]) < indexOf(order, l[j])
            /\ \A d \in nodeIds(tree) :
                  isAncestor(tree, l[i], d) => indexOf(order, d) < indexOf(order, l[j])

JumpableKinds == {"Function", "Method", "Constructor", "Class", "Struct"}

jumpableNodes(tree) == {n \in nodeIds(tree) : tree.node[n].kind \in JumpableKinds}

lastChar(s) == s[Len(s)]

---------------------------------------------------------------------------
(* Properties of the flattener and the jump-target builder (SpecPure) *)

\* C1: flattenSymbols and the walk of detectCurrentBlock emit one entry per
\* node of the tree, in depth-first pre-order: a node before its
\* descendants, siblings in the order of the children list.
C1_FlattenIsPreOrder ==
    /\ flatOut.called =>
          IsPreOrder(symbols, [i \in DOMAIN flatOut.value |-> flatOut.value[i].self])
    /\ walkOut.called =>
          IsPreOrder(symbols, [i \in DOMAIN walkOut.value |-> walkOut.value[i].sym])

\* a root with a child, followed by a second root, has been flattened both ways
C1_Witness ==
    /\ flatOut.called /\ walkOut.called
    /\ Len(symbols.roots) = 2
    /\ Len(flatOut.value) = 3
    /\ flatOut.value[2].parent = <<symbols.roots[1]>>
    /\ walkOut.value[3].sym = symbols.roots[2]

\* C4: the jump-target list built from the provider's tree is ascending by
\* (line, character), whatever the order the provider lists the symbols in.
C4_TargetsSorted ==
    (targetsOut.called /\ jumpableNodes(symbols) # {}) =>
        \A i \in DOMAIN targetsOut.value, j \in DOMAIN targetsOut.value :
            i < j => ~isAfter(targetsOut.value[i].position, targetsOut.value[j].position)

\* three targets were built from a tree whose first symbol starts after a
\* later one on the same line and before another on an earlier line
C4_Witness ==
    /\ targetsOut.called
    /\ Len(targetsOut.value) = 3
    /\ Len(symbols.roots) = 3
    /\ symbols.node[symbols.roots[1]].range.start = Pos(1, 0)
    /\ symbols.node[symbols.roots[2]].range.start = Pos(0, 1)
    /\ symbols.node[symbols.roots[3]].range.start = Pos(0, 0)

\* C10: when the tree holds a jumpable symbol, the list holds exactly one
\* target for every symbol of kind Function, Method, Constructor, Class or
\* Struct and none for a symbol of another kind (a symbol's target is found
\* by its start and by its own name, the last character of the display name).
C10_TargetsAreTheJumpables ==
    (targetsOut.called /\ jumpableNodes(symbols) # {}) =>
        LET targetsOf(n) ==
                {i \in DOMAIN targetsOut.value :
                    /\ targetsOut.value[i].position = symbols.node[n].range.start
                    /\ lastChar(targetsOut.value[i].name) = lastChar(symbols.node[n].name)}
            namedFor(n) ==
                {i \in DOMAIN targetsOut.value :
                    lastChar(targetsOut.value[i].name) = lastChar(symbols.node[n].name)}
        IN  /\ Len(targetsOut.value) = Cardinality(jumpableNodes(symbols))
            /\ \A n \in nodeIds(symbols) :
                  IF n \in jumpableNodes(symbols)
                  THEN Cardinality(targetsOf(n)) = 1
                  ELSE namedFor(n) = {}

\* a Constructor, a Struct and a non-jumpable symbol in one tree
C10_Witness ==
    /\ targetsOut.called
    /\ Len(targetsOut.value) = 2
    /\ \E a \in nodeIds(symbols), b \in nodeIds(symbols), c \in nodeIds(symbols) :
          /\ symbols.node[a].kind = "Constructor"
          /\ symbols.node[b].kind = "Struct"
          /\ symbols.node[c].kind = "Variable"

---------------------------------------------------------------------------
(* SpecBlock: detectCurrentBlock on one Selection object *)

SmallSizes == {0, 1, 2}

BlockKinds == {"Class", "Function", "Method", "Constructor"}

\* every tree of at most two symbols over the block kinds and all
\* well-formed ranges
SmallBlockTrees ==
    UNION {TreesOf(n, BlockKinds, WellFormedRanges, DefaultNames(n)) : n \in SmallSizes}

\* ranges nested in each other, two of them of the same size
NestedRanges == {Rng(Pos(0, 0), Pos(1, 1)), Rng(Pos(0, 1), Pos(1, 1)), Rng(Pos(0, 0), Pos(1, 0))}

\* larger trees of methods over the nested ranges
DeepBlockTrees ==
    UNION {TreesOf(n, {"Method"}, NestedRanges, DefaultNames(n)) : n \in 3..MaxNodes}

\* a document with a line for every line number and a character for every column
GridDoc ==
    [l \in 1..Cardinality(LineNumbers) |->
        [c \in 1..Cardinality(Characters) |-> Letters[((l + c) % Len(Letters)) + 1]]]

InitBlock ==
    /\ symbols \in SmallBlockTrees \cup DeepBlockTrees
    /\ docText = GridDoc
    /\ cursor \in Positions
    /\ NavIdle
    /\ \E bt \in {"class", "function"} : sel = NewSelection(bt)
    /\ detecting = {}
    /\ detects = 0
    /\ detected = NoDetect
    /\ PureIdle

\* lines 18-25: the cursor is read, then the call waits for the provider
DetectStart ==
    /\ detects < MaxCalls
    /\ detects' = detects + 1
    /\ detecting' = detecting \cup {cursor}
    /\ UNCHANGED <<symbols, docText, cursor, navVars, sel, detected, pureVars>>

\* lines 27-61: the provider resolved for a call that read cursor cur
DetectResolve(cur) ==
    /\ cur \in detecting
    /\ detecting' = detecting \ {cur}
    /\ IF inRangeThrows(symbols)
       THEN /\ sel' = sel
            /\ detected' = [done |-> TRUE, cursor |-> cur, found |-> FALSE, sym |-> 0,
                             threw |-> TRUE, before |-> sel]
       ELSE LET sorted == candidates(symbols, cur, sel.blockType)
            IN  IF sorted = <<>>
                THEN /\ sel' = [sel EXCEPT !.cursorInSelection = FALSE]
                     /\ detected' = [done |-> TRUE, cursor |-> cur, found |-> FALSE,
                                      sym |-> 0, threw |-> FALSE, before |-> sel]
                ELSE /\ sel' = foundSelection(sel, symbols, docText, sorted[1])
                     /\ detected' = [done |-> TRUE, cursor |-> cur, found |-> TRUE,
                                      sym |-> sorted[1].sym,
                                      threw |-> lineAtThrows(symbols, docText, sorted[1]),
                                      before |-> sel]
    /\ UNCHANGED <<symbols, docText, cursor, navVars, detects, pureVars>>

NextBlock ==
    \/ DetectStart
    \/ \E cur \in Positions : DetectResolve(cur)

SpecBlock == InitBlock /\ [][NextBlock]_vars

---------------------------------------------------------------------------
(* Properties of the block locator (SpecBlock) *)

desiredKinds(blockType) ==
    IF blockType = "class" THEN {"Class"} ELSE {"Function", "Method"}

\* start <= pos <= end in the order on (line, character)
contains(range, pos) == ~isBefore(pos, range.start) /\ ~isAfter(pos, range.end)

\* the symbols of the desired kind whose range contains the cursor the
\* last completed call read
matching ==
    {n \in nodeIds(symbols) :
        /\ symbols.node[n].kind \in desiredKinds(sel.blockType)
        /\ contains(symbols.node[n].range, detected.cursor)}

\* C2: when a symbol of the desired kind contains the cursor,
\* detectCurrentBlock selects one of minimum rangeSize among the desired-kind
\* symbols containing the cursor, and the Selection carries its name.
C2_SelectsMinimumRangeSize ==
    (detected.done /\ matching # {}) =>
        /\ detected.found
        /\ detected.sym \in matching
        /\ \A m \in matching :
              rangeSize(symbols.node[detected.sym].range) <= rangeSize(symbols.node[m].range)
        /\ sel.name = symbols.node[detected.sym].name

\* the selected symbol is nested in a strictly larger match that is listed
\* before it
C2_Witness ==
    /\ detected.done /\ detected.found
    /\ \E m \in matching :
          /\ m < detected.sym
          /\ rangeSize(symbols.node[m].range) > rangeSize(symbols.node[detected.sym].range)

\* C3: when no symbol of the desired kind contains the cursor, the call
\* ends normally with cursorInSelection false, and name, text, firstLine,
\* lastLine and selectionInClass are what they were before the call.
C3_NoMatchIsNormal ==
    (detected.done /\ matching = {}) =>
        /\ ~detected.found
        /\ ~detected.threw
        /\ sel.cursorInSelection = FALSE
        /\ sel.name = detected.before.name
        /\ sel.text = detected.before.text
        /\ sel.firstLine = detected.before.firstLine
        /\ sel.lastLine = detected.before.lastLine
        /\ sel.selectionInClass = detected.before.selectionInClass

\* no match, although a symbol of another kind contains the cursor and a
\* symbol of the desired kind lies elsewhere
C3_Witness ==
    /\ detected.done /\ matching = {}
    /\ \E a \in nodeIds(symbols), b \in nodeIds(symbols) :
          /\ symbols.node[a].kind = "Constructor"
          /\ contains(symbols.node[a].range, detected.cursor)
          /\ symbols.node[b].kind \in desiredKinds(sel.blockType)
          /\ ~contains(symbols.node[b].range, detected.cursor)

---------------------------------------------------------------------------
(* Properties of the navigator (Spec) *)

\* the last command ran to its end with the provider's answer
ranToEnd == last.direction \in Directions /\ ~last.rejected

positionsOf(targets) == {targets[i].position : i \in DOMAIN targets}

\* the target positions on the requested side of the cursor
inDirection(targets, direction, current) ==
    IF direction = "next"
    THEN {p \in positionsOf(targets) : isAfter(p, current)}
    ELSE {p \in positionsOf(targets) : isBefore(p, current)}

\* C5: "next" selects the target of least position strictly after the
\* cursor, "previous" the target of greatest position strictly before it; a
\* target at the cursor is never selected.
C5_NearestTargetInDirection ==
    (ranToEnd /\ last.targets # <<>>) =>
        LET side == inDirection(last.targets, last.direction, last.current)
        IN  IF side = {}
            THEN ~last.found
            ELSE /\ last.found
                 /\ last.target \in seqElems(last.targets)
                 /\ last.target.position \in side
                 /\ last.target.position # last.current
                 /\ \A p \in side :
                       IF last.direction = "next"
                       THEN ~isBefore(p, last.target.position)
                       ELSE ~isAfter(p, last.target.position)

\* "next" with a target at the cursor and two different positions after it
C5_Witness ==
    /\ ranToEnd /\ last.found /\ last.direction = "next"
    /\ last.current \in positionsOf(last.targets)
    /\ Cardinality(inDirection(last.targets, "next", last.current)) = 2

\* C6: with a non-empty list, "next" from at or after the last target's
\* position reports "no next symbol", "previous" from at or before the first
\* target's position reports "no previous symbol", and the cursor stays.
C6_NoWraparound ==
    (ranToEnd /\ last.targets # <<>>) =>
        /\ (/\ last.direction = "next"
            /\ ~isBefore(last.current, last.targets[Len(last.targets)].position))
              => /\ last.message = "No next symbol."
                 /\ ~last.found
                 /\ cursor = last.current
        /\ (/\ last.direction = "previous"
            /\ ~isAfter(last.current, last.targets[1].position))
              => /\ last.message = "No previous symbol."
                 /\ ~last.found
                 /\ cursor = last.current

\* a second "next", issued from the last of several targets
C6_Witness ==
    /\ ranToEnd /\ completed = 2
    /\ last.direction = "next"
    /\ last.message = "No next symbol."
    /\ Len(last.targets) >= 2
    /\ last.current = last.targets[Len(last.targets)].position
    /\ last.current # last.targets[1].position

\* C7: "no symbols" is reported exactly when the list is empty, "no
\* next/previous symbol" exactly when the list is non-empty and holds no
\* target in the requested direction; neither ends the call with an error.
C7_EmptyAndExhaustedDistinct ==
    ranToEnd =>
        /\ last.message = NoSymbolsMessage <=> last.targets = <<>>
        /\ last.message = (IF last.direction = "next" THEN "No next symbol."
                           ELSE "No previous symbol.")
             <=> (/\ last.targets # <<>>
                  /\ inDirection(last.targets, last.direction, last.current) = {})
        /\ last.message \in {NoSymbolsMessage, "No next symbol.", "No previous symbol."}
             => ~last.found /\ ~last.rejected

\* a tree that holds a symbol, none of them jumpable, over an empty document
C7_Witness ==
    /\ ranToEnd
    /\ last.message = NoSymbolsMessage
    /\ Len(symbols.roots) = 1
    /\ docText = <<>>

\* C8: a call that finds a target leaves the cursor at the target's position
\* and schedules exactly one announcement, which names the target.
C8_MovesAndAnnounces ==
    [][(completed' = completed + 1 /\ last'.found) =>
          /\ cursor' = last'.target.position
          /\ \E t \in timers' :
                /\ timers' \ timers = {t}
                /\ t.message = <<"Moved ", last'.direction, " to ">>
                                \o last'.target.name \o <<".">>]_vars

\* the cursor sits on a nested symbol and its qualified name is pending
C8_Witness ==
    /\ ranToEnd /\ last.found
    /\ cursor = last.target.position
    /\ cursor # last.current
    /\ Len(last.target.name) > 1
    /\ \E t \in timers : t.message = <<"Moved ", "previous", " to ">>
                                       \o last.target.name \o <<".">>

\* C9: at most one announcement is pending, and it is the one scheduled by
\* the latest successful navigation, which cancelled the one pending before.
C9_OnePendingAnnouncement ==
    /\ Cardinality(timers) <= 1
    /\ \A t \in timers : t.id = lastTimeout
    /\ (ranToEnd /\ last.found) => \A t \in timers : t \notin last.pendingBefore

\* a second successful navigation found the first one's announcement pending
C9_Witness ==
    /\ ranToEnd /\ last.found
    /\ last.pendingBefore # {}
    /\ Cardinality(timers) = 1
    /\ spoken = <<>>

---------------------------------------------------------------------------
(* SpecNames: the jump-target builder on trees whose names are empty,      *)
(* blank or padded                                                         *)

NameSamples == {<<>>, <<" ">>, <<"a">>, <<" ", "b", " ">>}

\* flat and nested trees of methods over every choice of sample names
NamedTrees ==
    UNION {TreesOver(n, FlatOrChain(n), {"Method"}, {RangeById(n)}, [1..n -> NameSamples]) :
             n \in 0..MaxNodes}

InitNames ==
    /\ symbols \in NamedTrees
    /\ docText = <<>>
    /\ cursor = Pos(0, 0)
    /\ NavIdle
    /\ BlockIdle
    /\ PureIdle

SpecNames == InitNames /\ [][NextPure]_vars

\* the symbols from the root down to n, n included
RECURSIVE pathTo(_, _)
pathTo(tree, n) ==
    IF parentOf(tree, n) = 0 THEN <<n>>
    ELSE Append(pathTo(tree, parentOf(tree, n)), n)

\* the trimmed names along the path to n that are not empty
segmentsOf(tree, n) ==
    LET path == pathTo(tree, n)
    IN  SelectSeq([i \in DOMAIN path |-> trim(tree.node[path[i]].name)],
                  LAMBDA seg : seg # <<>>)

qualifiedName(tree, n) ==
    IF segmentsOf(tree, n) = <<>> THEN Unnamed
    ELSE join(segmentsOf(tree, n), ColonColon)

\* C11: a jump target's display name is the "::"-join of the trimmed names
\* from the root to the symbol itself with every empty segment dropped, and
\* "(unnamed)" when no segment remains.
C11_DisplayNameDropsEmptySegments ==
    (targetsOut.called /\ jumpableNodes(symbols) # {}) =>
        \A n \in jumpableNodes(symbols) :
            \E i \in DOMAIN targetsOut.value :
                /\ targetsOut.value[i].position = symbols.node[n].range.start
                /\ targetsOut.value[i].name = qualifiedName(symbols, n)

---------------------------------------------------------------------------
(* The fallback scan (SpecPure) *)

---------------------------------------------------------------------------
(* Provider failure (Spec) *)

\* C13: when the provider call rejects, moveCursorToSymbol ends as it does
\* with no symbols: the call does not end with the rejection, it shows the
\* "no symbols" information message, and the cursor and the pending
\* announcements are unchanged.
C13_RejectionBehavesAsNoSymbols ==
    [][\A d \in Directions :
          ProviderRejects(d) =>
              /\ ~last'.rejected
              /\ last'.message = NoSymbolsMessage
              /\ cursor' = cursor
              /\ timers' = timers]_vars

---------------------------------------------------------------------------
(* SpecMalformed: detectCurrentBlock over provider data with missing ranges *)

\* trees of at most two methods or classes; each symbol has the whole-grid
\* range or none
MalformedTrees ==
    UNION {TreesOver(n, FlatOrChain(n), {"Method", "Class"},
                     [1..n -> {NoRange, Rng(Pos(0, 0), Pos(1, 1))}], DefaultNames(n)) :
             n \in SmallSizes}

InitMalformed ==
    /\ symbols \in MalformedTrees
    /\ docText = GridDoc
    /\ cursor \in Positions
    /\ NavIdle
    /\ \E bt \in {"class", "function"} : sel = NewSelection(bt)
    /\ detecting = {}
    /\ detects = 0
    /\ detected = NoDetect
    /\ PureIdle

SpecMalformed == InitMalformed /\ [][NextBlock]_vars

\* C14: when a symbol of the provider's tree has no range,
\* detectCurrentBlock still completes without throwing, with either a match
\* or the no-match outcome.
C14_MissingRangeTolerated ==
    (detected.done /\ \E n \in nodeIds(symbols) : ~hasRange(symbols.node[n].range)) =>
        ~detected.threw

---------------------------------------------------------------------------
(* SpecScan: the fallback scan over documents, the provider yielding nothing *)

MaxLines == 2

\* def f(   class A:   (indented) def m   defx   def    x<U+2028>def g
LineSamples ==
    { <<"d", "e", "f", " ", "f", "(">>,
      <<"c", "l", "a", "s", "s", " ", "A", ":">>,
      <<" ", "d", "e", "f", " ", "m">>,
      <<"d", "e", "f", "x">>,
      <<"d", "e", "f", " ">>,
      <<"x", "LS", "d", "e", "f", " ", "g">> }

ScanDocs == UNION {[1..n -> LineSamples] : n \in 0..MaxLines}

InitScan ==
    /\ symbols = EmptyTree
    /\ docText \in ScanDocs
    /\ cursor = Pos(0, 0)
    /\ NavIdle
    /\ BlockIdle
    /\ PureIdle

SpecScan == InitScan /\ [][NextPure]_vars

\* the line begins with "def " or "class " followed by a word character
beginsWithIntroducer(lineText) ==
    \E prefix \in {DefPrefix, ClassPrefix} :
        /\ startsWith(lineText, prefix)
        /\ Len(lineText) > Len(prefix)
        /\ lineText[Len(prefix) + 1] \in WordChars

\* the identifier after the introducer of such a line
identifierOf(lineText) ==
    IF startsWith(lineText, DefPrefix)
    THEN wordRun(SubSeq(lineText, Len(DefPrefix) + 1, Len(lineText)))
    ELSE wordRun(SubSeq(lineText, Len(ClassPrefix) + 1, Len(lineText)))

introducerLines(text) == {l \in DOMAIN text : beginsWithIntroducer(text[l])}

oneTargetPerIntroducerLine(text, targets) ==
    /\ Len(targets) = Cardinality(introducerLines(text))
    /\ \A i \in DOMAIN targets :
          /\ targets[i].position.character = 0
          /\ targets[i].position.line + 1 \in introducerLines(text)
          /\ targets[i].name = identifierOf(text[targets[i].position.line + 1])
    /\ \A i \in DOMAIN targets, j \in DOMAIN targets :
          i < j => targets[i].position.line < targets[j].position.line

\* C15: with no symbols from the provider, the targets are exactly one per
\* document line that begins with "def " or "class " and an identifier, in
\* ascending line order, each named by the identifier and placed at column 0
\* of its line; other lines give no target.
C15_OneTargetPerIntroducerLine ==
    targetsOut.called => oneTargetPerIntroducerLine(docText, targetsOut.value)

\* the same on documents whose lines hold neither U+2028 nor U+2029
FallbackScanOnPlainLines ==
    (targetsOut.called /\ \A l \in DOMAIN docText : \A c \in DOMAIN docText[l] :
                             docText[l][c] \notin LineTerminators) =>
        oneTargetPerIntroducerLine(docText, targetsOut.value)

---------------------------------------------------------------------------
(* Ancestor lists of the flattened entries (SpecPure) *)

\* the symbols above n, from its root down to its immediate parent
ancestorsOf(tree, n) == SubSeq(pathTo(tree, n), 1, Len(pathTo(tree, n)) - 1)

\* C17: in the output of flattenSymbols and of the walk of
\* detectCurrentBlock, each entry's ancestor list is the path from the root
\* of its tree down to its immediate parent, outermost first: empty for a
\* root symbol, and as long as the symbol is deep.
C17_AncestorsAreThePath ==
    /\ flatOut.called =>
          \A i \in DOMAIN flatOut.value :
              flatOut.value[i].parent = ancestorsOf(symbols, flatOut.value[i].self)
    /\ walkOut.called =>
          \A i \in DOMAIN walkOut.value :
              walkOut.value[i].parents = ancestorsOf(symbols, walkOut.value[i].sym)

\* both traversals listed a symbol with two ancestors and a root symbol
C17_Witness ==
    /\ flatOut.called /\ walkOut.called
    /\ \E i \in DOMAIN flatOut.value, j \in DOMAIN flatOut.value :
          Len(flatOut.value[i].parent) = 2 /\ flatOut.value[j].parent = <<>>
    /\ \E i \in DOMAIN walkOut.value, j \in DOMAIN walkOut.value :
          Len(walkOut.value[i].parents) = 2 /\ walkOut.value[j].parents = <<>>

---------------------------------------------------------------------------
(* More properties of the block locator (SpecBlock) *)

\* C18: the symbol detectCurrentBlock selects contains the cursor and has a
\* desired kind: Class for block type 'class', Function or Method otherwise;
\* no symbol of another kind is selected.
C18_SelectedContainsCursorAndHasKind ==
    (detected.done /\ detected.found) =>
        /\ detected.sym \in nodeIds(symbols)
        /\ contains(symbols.node[detected.sym].range, detected.cursor)
        /\ symbols.node[detected.sym].kind \in desiredKinds(sel.blockType)
        /\ sel.blockType = "class" => symbols.node[detected.sym].kind = "Class"
        /\ sel.blockType # "class" => symbols.node[detected.sym].kind \in {"Function", "Method"}

\* a symbol was selected although a strictly smaller Constructor contains
\* the cursor too
C18_Witness ==
    /\ detected.done /\ detected.found
    /\ \E c \in nodeIds(symbols) :
          /\ symbols.node[c].kind = "Constructor"
          /\ contains(symbols.node[c].range, detected.cursor)
          /\ rangeSize(symbols.node[c].range) < rangeSize(symbols.node[detected.sym].range)

\* every child's range lies within its parent's range
nestedWithin(tree) ==
    \A c \in nodeIds(tree) :
        parentOf(tree, c) # 0 =>
            /\ contains(tree.node[parentOf(tree, c)].range, tree.node[c].range.start)
            /\ contains(tree.node[parentOf(tree, c)].range, tree.node[c].range.end)

\* ... and is smaller than its parent's by rangeSize
nestedSmaller(tree) ==
    /\ nestedWithin(tree)
    /\ \A c \in nodeIds(tree) :
          parentOf(tree, c) # 0 =>
              rangeSize(tree.node[c].range) < rangeSize(tree.node[parentOf(tree, c)].range)

\* the descendants of the selected symbol that have the desired kind and
\* contain the cursor
matchingBelowSelected ==
    {d \in matching : isAncestor(symbols, detected.sym, d)}

\* C19 as claimed: in a tree where every child's range lies within its
\* parent's, the selected symbol has no descendant of the desired kind that
\* contains the cursor.
C19_InnermostWhenNested ==
    (detected.done /\ detected.found /\ nestedWithin(symbols)) =>
        matchingBelowSelected = {}

\* C19, amended: the same in a tree where every child's range lies within
\* its parent's and has a smaller rangeSize than its parent's.
C19_InnermostWhenNestedSmaller ==
    (detected.done /\ detected.found /\ nestedSmaller(symbols)) =>
        matchingBelowSelected = {}

\* in such a tree the selected symbol lies below another match
C19_Witness ==
    /\ detected.done /\ detected.found /\ nestedSmaller(symbols)
    /\ \E a \in matching : isAncestor(symbols, a, detected.sym)

\* the place of symbol n in the flattening order of the tree
flatIndex(tree, n) ==
    CHOOSE i \in 1..Cardinality(nodeIds(tree)) : walk(tree, tree.roots, <<>>)[i].sym = n

\* the matches whose rangeSize equals the selected symbol's
tiedWithSelected ==
    {m \in matching :
        rangeSize(symbols.node[m].range) = rangeSize(symbols.node[detected.sym].range)}

\* C20: among the desired-kind symbols containing the cursor that have
\* exactly the selected symbol's rangeSize, the selected one comes first in
\* flattening order.
C20_TieGoesToFirstFlattened ==
    (detected.done /\ detected.found) =>
        \A m \in tiedWithSelected :
            flatIndex(symbols, detected.sym) <= flatIndex(symbols, m)

\* the selected symbol ties with a match of another range
C20_Witness ==
    /\ detected.done /\ detected.found
    /\ \E m \in tiedWithSelected :
          symbols.node[m].range # symbols.node[detected.sym].range

---------------------------------------------------------------------------
(* SpecRange: inRange and rangeSize applied to positions and ranges *)

\* positions on three lines, with columns next to 0 and next to the weight
\* rangeSize gives a line
WideLines == {0, 1, 2}

WideColumns == {0, 1, LineWeight - 1, LineWeight}

WidePositions == {Pos(l, c) : l \in WideLines, c \in WideColumns}

\* every pair of such positions, start after end included
WideRanges == {Rng(a, b) : a \in WidePositions, b \in WidePositions}

InitRange ==
    /\ symbols = EmptyTree
    /\ docText = <<>>
    /\ cursor = Pos(0, 0)
    /\ NavIdle
    /\ BlockIdle
    /\ PureIdle

CallInRange(pos, range) ==
    /\ rangeOut.op = "none"
    /\ rangeOut' = [NoRangeCall EXCEPT !.op = "inRange", !.pos = pos, !.range = range,
                                       !.result = inRange(pos, range)]
    /\ UNCHANGED <<symbols, docText, cursor, navVars, blockVars, flatOut, walkOut, targetsOut>>

\* the two sizes the comparator of the sort subtracts
CallRangeSize(a, b) ==
    /\ rangeOut.op = "none"
    /\ rangeOut' = [NoRangeCall EXCEPT !.op = "rangeSize", !.range = a, !.other = b,
                                       !.size = rangeSize(a), !.otherSize = rangeSize(b)]
    /\ UNCHANGED <<symbols, docText, cursor, navVars, blockVars, flatOut, walkOut, targetsOut>>

NextRange ==
    \/ rangeOut.op = "none" /\ \E pos \in WidePositions, range \in WideRanges :
                                  CallInRange(pos, range)
    \/ rangeOut.op = "none" /\ \E a \in WideRanges, b \in WideRanges :
                                  CallRangeSize(a, b)

SpecRange == InitRange /\ [][NextRange]_vars

\* C21: inRange(pos, range) is true exactly when start <= pos <= end in the
\* order on (line, character), for every position and every range; for a
\* range whose start is after its end it is false.
C21_InRangeIsClosedInterval ==
    rangeOut.op = "inRange" =>
        /\ rangeOut.result <=> contains(rangeOut.range, rangeOut.pos)
        /\ isAfter(rangeOut.range.start, rangeOut.range.end) => ~rangeOut.result

\* inRange was asked about a range that starts after its end on another
\* line, at a position between the end and the start
C21_Witness ==
    /\ rangeOut.op = "inRange"
    /\ rangeOut.range.start.line > rangeOut.range.end.line
    /\ isAfter(rangeOut.pos, rangeOut.range.end)
    /\ isBefore(rangeOut.pos, rangeOut.range.start)
    /\ ~rangeOut.result

\* the four columns of two ranges are below the weight of a line
columnsBelowWeight(a, b) ==
    \A c \in {a.start.character, a.end.character, b.start.character, b.end.character} :
        c < LineWeight

\* start and end of inner lie in the closed interval of outer
liesWithin(inner, outer) ==
    /\ contains(outer, inner.start)
    /\ contains(outer, inner.end)

\* C22: for two ranges with all columns below 10000, when one lies within
\* the other its rangeSize is less than or equal to the other's, and strictly
\* less when the two ranges differ.
C22_InnerRangeIsSmaller ==
    (/\ rangeOut.op = "rangeSize"
     /\ columnsBelowWeight(rangeOut.range, rangeOut.other)
     /\ liesWithin(rangeOut.range, rangeOut.other)) =>
        /\ rangeOut.size <= rangeOut.otherSize
        /\ rangeOut.range # rangeOut.other => rangeOut.size < rangeOut.otherSize

\* the inner range spans fewer lines but more columns than the outer one
C22_Witness ==
    /\ rangeOut.op = "rangeSize"
    /\ columnsBelowWeight(rangeOut.range, rangeOut.other)
    /\ liesWithin(rangeOut.range, rangeOut.other)
    /\ rangeOut.range.end.line - rangeOut.range.start.line
          < rangeOut.other.end.line - rangeOut.other.start.line
    /\ rangeOut.range.end.character - rangeOut.range.start.character
          > rangeOut.other.end.character - rangeOut.other.start.character
    /\ rangeOut.size < rangeOut.otherSize

---------------------------------------------------------------------------
(* SpecStep: commands given one after the other, each after the previous   *)
(* one has ended                                                           *)

\* one command more than there can be targets
MaxSteps == MaxNodes + 1

\* a position after every position a symbol can start at
PastTheEnd == Pos(2, 0)

\* trees of root methods, listed against document order, with ties
StepTrees ==
    UNION {TreesOver(n, {[i \in 1..n |-> 0]}, {"Method"}, Descending(n), DefaultNames(n)) :
             n \in 0..MaxNodes}

InitStep ==
    /\ symbols \in StepTrees
    /\ docText = <<>>
    /\ cursor \in {Pos(0, 0), PastTheEnd}
    /\ NavIdle
    /\ BlockIdle
    /\ PureIdle

\* lines 91-96, when no earlier command is still waiting
InvokeAlone(direction) ==
    /\ issued < MaxSteps
    /\ pending = [d \in Directions |-> 0]
    /\ issued' = issued + 1
    /\ pending' = [pending EXCEPT ![direction] = @ + 1]
    /\ UNCHANGED <<symbols, docText, cursor, lastTimeout, timers, spoken, last, completed,
                   trail, blockVars, pureVars>>

\* the provider answers every call
NextStep ==
    \/ \E d \in Directions : InvokeAlone(d)
    \/ \E d \in Directions : ResolveLogged(d)
    \/ \E t \in timers : TimerFires(t)

SpecStep == InitStep /\ [][NextStep]_vars

\* every command so far was d and the provider answered each of them
onlySteps(d) ==
    /\ trail # <<>>
    /\ \A k \in DOMAIN trail : trail[k].call.direction = d /\ ~trail[k].call.rejected

\* the jump-target list of the document
targetList == getJumpTargets(symbols, docText)

distinctPositions(targets) ==
    \A i \in DOMAIN targets, j \in DOMAIN targets :
        i # j => targets[i].position # targets[j].position

\* the k-th command selected target number k from the front, and the
\* commands after the last target reported "No next symbol."
steppedForward ==
    \A k \in DOMAIN trail :
        IF k <= Len(targetList)
        THEN trail[k].call.found /\ trail[k].call.target = targetList[k]
        ELSE ~trail[k].call.found /\ trail[k].call.message = "No next symbol."

steppedBackward ==
    \A k \in DOMAIN trail :
        IF k <= Len(targetList)
        THEN /\ trail[k].call.found
             /\ trail[k].call.target = targetList[Len(targetList) + 1 - k]
        ELSE ~trail[k].call.found /\ trail[k].call.message = "No previous symbol."

startedBeforeFirst ==
    targetList # <<>> /\ isBefore(trail[1].call.current, targetList[1].position)

startedAfterLast ==
    targetList # <<>> /\ isAfter(trail[1].call.current, targetList[Len(targetList)].position)

\* C23 as claimed: from a cursor before the first target, repeated "next"
\* commands select every target of the list once, in list order, and only
\* then report "no next symbol"; likewise "previous" from after the last.
C23_StepsThroughEveryTarget ==
    /\ (onlySteps("next") /\ startedBeforeFirst) => steppedForward
    /\ (onlySteps("previous") /\ startedAfterLast) => steppedBackward

\* C23, amended: the same for a target list whose positions are pairwise
\* distinct.
C23_StepsThroughDistinctPositions ==
    distinctPositions(targetList) =>
        /\ (onlySteps("next") /\ startedBeforeFirst) => steppedForward
        /\ (onlySteps("previous") /\ startedAfterLast) => steppedBackward

\* three targets at three positions were stepped through forwards, and the
\* command after them was told there is no next symbol
C23_Witness ==
    /\ onlySteps("next") /\ startedBeforeFirst
    /\ distinctPositions(targetList)
    /\ Len(targetList) = 3
    /\ Len(trail) = 4
    /\ ~trail[4].call.found

---------------------------------------------------------------------------
(* SpecOverlap: commands that may overlap, their calls kept in the trail *)

InitOverlap ==
    /\ symbols \in StepTrees
    /\ docText = <<>>
    /\ cursor \in {Pos(0, 0), Pos(0, 1)}
    /\ NavIdle
    /\ BlockIdle
    /\ PureIdle

NextOverlap ==
    \/ \E d \in Directions : Invoke(d)
    \/ \E d \in Directions : ResolveLogged(d)
    \/ \E d \in Directions : RejectLogged(d)
    \/ \E t \in timers : TimerFires(t)

SpecOverlap == InitOverlap /\ [][NextOverlap]_vars

\* the positions after c of the targets the first call to end was given
positionsAfter(c) == {p \in positionsOf(trail[1].call.targets) : isAfter(p, c)}

\* the earliest of a set of positions
earliest(ps) == CHOOSE p \in ps : \A q \in ps : ~isBefore(q, p)

\* the first two calls to end were "next" commands the provider answered,
\* and the second was already waiting when the first ended
twoOverlappingNext ==
    /\ Len(trail) >= 2
    /\ \A k \in {1, 2} : trail[k].call.direction = "next" /\ ~trail[k].call.rejected
    /\ trail[1].waiting >= 1
    /\ Cardinality(positionsAfter(trail[1].call.current)) >= 2

\* C24: of two "next" commands issued before either provider call resolves,
\* each selects from the cursor as it is when its own call resolves: with two
\* or more target positions after the original cursor, the second call to
\* resolve starts from the first of them and puts the cursor on the second,
\* and the announcement then pending names the target it selected.
C24_OverlappingNextReachSecond ==
    twoOverlappingNext =>
        LET after  == positionsAfter(trail[1].call.current)
            first  == earliest(after)
            second == earliest(after \ {first})
        IN  /\ trail[1].call.found /\ trail[1].call.target.position = first
            /\ trail[2].call.current = first
            /\ trail[2].call.found /\ trail[2].call.target.position = second
            /\ Len(trail) = 2 =>
                  /\ cursor = second
                  /\ \A t \in timers :
                        t.message = movedMessage("next", trail[2].call.target.name)

\* both calls have ended and the announcement of the second is pending
C24_Witness ==
    /\ twoOverlappingNext
    /\ Len(trail) = 2
    /\ timers # {}
    /\ spoken = <<>>

\* the calls in the trail that moved the cursor
moves == {k \in DOMAIN trail : trail[k].call.found}

\* the most recent of them
lastMove == trail[CHOOSE k \in moves : \A m \in moves : m <= k].call

\* C25: whenever an announcement is spoken, it is the announcement of the
\* most recent call that moved the cursor: the name of an earlier target is
\* not spoken once a later call has moved the cursor.
C25_SpokenNamesLatestMove ==
    [][spoken' # spoken =>
          /\ moves # {}
          /\ spoken' = Append(spoken, movedMessage(lastMove.direction, lastMove.target.name))]_vars

\* two overlapping calls moved the cursor to targets of different names and
\* the one announcement spoken is the second call's
C25_Witness ==
    /\ Len(trail) = 2
    /\ trail[1].waiting >= 1
    /\ trail[1].call.found /\ trail[2].call.found
    /\ trail[1].call.target.name # trail[2].call.target.name
    /\ spoken = <<movedMessage(trail[2].call.direction, trail[2].call.target.name)>>

---------------------------------------------------------------------------
(* SpecOverlapFair: a scheduled timer that is not cleared fires *)

\* the event loop runs the callback of a timer whose delay has passed
SpecOverlapFair == SpecOverlap /\ WF_vars(\E t \in timers : TimerFires(t))

\* the timer scheduled by the k-th call to end is pending
pendingTimer(k) == \E t \in timers : t.id = k

\* the announcement the k-th call to end scheduled
announcementOf(k) == movedMessage(trail[k].call.direction, trail[k].call.target.name)

\* C26: the announcement of a call that moved the cursor is scheduled once,
\* by that call; it stays pending until it is spoken or a later call moves
\* the cursor, so a call that ends with "no symbols" or "no next/previous
\* symbol" does not cancel it; and it does not stay pending forever.
C26_AnnouncementEventuallySpoken ==
    /\ [][\A k \in 1..MaxCalls :
             (~pendingTimer(k) /\ pendingTimer(k)') =>
                 (Len(trail) = k - 1 /\ Len(trail') = k /\ trail'[k].call.found)]_vars
    /\ [][\A k \in 1..MaxCalls :
             (pendingTimer(k) /\ ~pendingTimer(k)') =>
                 \/ spoken' = Append(spoken, announcementOf(k))
                 \/ Len(trail') = Len(trail) + 1 /\ trail'[Len(trail')].call.found]_vars
    /\ \A k \in 1..MaxCalls : pendingTimer(k) ~> ~pendingTimer(k)

\* a call ended with "No next symbol." or "No previous symbol." while the
\* announcement of the call before it was pending, and that announcement
\* has been spoken since
C26_Witness ==
    /\ Len(trail) = 2
    /\ trail[1].call.found
    /\ ~trail[2].call.found /\ ~trail[2].call.rejected
    /\ trail[2].call.pendingBefore # {}
    /\ spoken = <<announcementOf(1)>>
    /\ timers = {}

---------------------------------------------------------------------------
(* SpecReuse: one Selection object used for several detectCurrentBlock     *)
(* calls, the user moving the cursor in between                            *)

\* one method or class on the first line of the grid document
ReuseTrees ==
    TreesOf(1, {"Method", "Class"}, {Rng(Pos(0, 0), Pos(0, 1))}, DefaultNames(1))

InitReuse ==
    /\ symbols \in ReuseTrees
    /\ docText = GridDoc
    /\ cursor \in Positions
    /\ NavIdle
    /\ \E bt \in {"class", "function"} : sel = NewSelection(bt)
    /\ detecting = {}
    /\ detects = 0
    /\ detected = NoDetect
    /\ PureIdle

\* the user puts the cursor elsewhere; the next call reads it at line 19
HostMovesCursor(pos) ==
    /\ pos # cursor
    /\ cursor' = pos
    /\ UNCHANGED <<symbols, docText, navVars, blockVars, pureVars>>

NextReuse ==
    \/ DetectStart
    \/ \E cur \in Positions : DetectResolve(cur)
    \/ \E pos \in Positions : HostMovesCursor(pos)

SpecReuse == InitReuse /\ [][NextReuse]_vars

\* C27: after any sequence of detectCurrentBlock calls on one Selection,
\* cursorInSelection is true exactly when the most recent call found a
\* block, and then name, text, firstLine and lastLine are those of the block
\* that call found.
C27_FieldsDescribeLatestCall ==
    (detected.done /\ ~detected.threw) =>
        /\ sel.cursorInSelection <=> detected.found
        /\ detected.found =>
              LET sym == symbols.node[detected.sym]
              IN  /\ sel.name = sym.name
                  /\ sel.text = getText(docText, sym.range)
                  /\ sel.firstLine = lineAt(docText, sym.range.start.line)
                  /\ sel.lastLine = lineAt(docText, sym.range.end.line)

---------------------------------------------------------------------------
(* Next and previous undo each other (SpecOverlap) *)

\* calls k and k+1 of the trail: the first, in direction d, started at the
\* position of a jump target and moved the cursor; the second, in the
\* other direction, was answered by the provider
thereAndBack(k, d) ==
    /\ k + 1 \in DOMAIN trail
    /\ trail[k].call.direction = d
    /\ trail[k].call.found
    /\ trail[k].call.current \in positionsOf(trail[k].call.targets)
    /\ trail[k + 1].call.direction # d
    /\ ~trail[k + 1].call.rejected

\* C28: when the cursor is at the position of a jump target and "next"
\* moves it, the "previous" that follows moves it back to where it was; and
\* likewise "previous" followed by "next".
C28_NextAndPreviousAreInverse ==
    \A k \in DOMAIN trail, d \in Directions :
        thereAndBack(k, d) =>
            /\ trail[k + 1].call.current = trail[k].call.target.position
            /\ trail[k + 1].call.found
            /\ trail[k + 1].call.target.position = trail[k].call.current
            /\ Len(trail) = k + 1 => cursor = trail[k].call.current

\* "next" from the first of three target positions, then "previous"
C28_Witness ==
    /\ Len(trail) = 2
    /\ thereAndBack(1, "next")
    /\ Cardinality(positionsOf(trail[1].call.targets)) = 3
    /\ cursor = trail[1].call.current

====
